---- MODULE Spec2Model ----
(***************************************************************************)
(* Model of generator.Generator (susji/typestringer): Generate walks the   *)
(* packages returned by packages.Load, HandlePackage collects the type     *)
(* names the include/ignore filter accepts and writes one stub per name to *)
(* a sink (g.Output or the one WriteCloserCreator returns).                *)
(***************************************************************************)
EXTENDS Naturals, Sequences, FiniteSets, TLC

\* ------------------------------------------------------------------------
\* Bounds of the model
\* ------------------------------------------------------------------------
\* Longest g.Patterns the caller passes.
MaxPatterns == 2
\* Most packages packages.Load returns for one call.
MaxPkgs == 2

\* ------------------------------------------------------------------------
\* Values
\* ------------------------------------------------------------------------
\* The zero value of an interface, func or pointer field.
Nil == "nil"

\* Type names are strings, kept as sequences of characters so that the
\* regular expressions search them.
nInt    == <<"I", "n", "t">>
nString == <<"S", "t", "r", "i", "n", "g">>
nStruct == <<"S", "t", "r", "u", "c", "t">>

\* A compiled regular expression of the fragment the tests use: a literal,
\* optionally anchored with ^ and/or $.
Re(bol, lit, eol) == [bol |-> bol, lit |-> lit, eol |-> eol]
reRing    == Re(FALSE, <<"r", "i", "n", "g">>, FALSE)
reStructA == Re(TRUE, nStruct, TRUE)
reString  == Re(FALSE, nString, FALSE)
reIntA    == Re(TRUE, nInt, TRUE)

\* r.MatchString(s): the literal occurs somewhere in s (a search, not a full
\* match), at the start if ^ is given and up to the end if $ is given.
MatchString(r, s) ==
    \E k \in 1..(Len(s) + 1) :
        /\ k + Len(r.lit) - 1 <= Len(s)
        /\ \A j \in 1..Len(r.lit) : s[k + j - 1] = r.lit[j]
        /\ r.bol => k = 1
        /\ r.eol => k + Len(r.lit) - 1 = Len(s)

\* fmt.Sprintf / Fprintf for formats made of literal pieces and %s verbs: the
\* k-th %s is replaced by the k-th operand, a %s without an operand prints
\* %!s(MISSING).  A format and its result are sequences of pieces.
RECURSIVE Sprintf(_, _)
Sprintf(format, args) ==
    IF format = <<>> THEN <<>>
    ELSE IF Head(format) = "%s"
         THEN IF args = <<>>
              THEN <<"%!s(MISSING)">> \o Sprintf(Tail(format), args)
              ELSE <<Head(args)>> \o Sprintf(Tail(format), Tail(args))
         ELSE <<Head(format)>> \o Sprintf(Tail(format), args)

\* The Format of the tests, "%s,%s\n": two %s verbs like FormatReceiver.
TestFormat == <<"%s", ",", "%s", "\n">>

\* filepath.Dir of a path kept as <<directory, file>>.
Dir(path) == path[1]

\* ------------------------------------------------------------------------
\* What packages.Load can return: *packages.Package values with GoFiles,
\* Errors and Syntax (ast.File: Name and Decls).  A declaration is a
\* FuncDecl or a GenDecl with its token and the names of its specs.
\* ------------------------------------------------------------------------
FuncDecl == [gen |-> FALSE, Tok |-> "FUNC", Specs |-> <<>>]
GenDecl(tok, specs) == [gen |-> TRUE, Tok |-> tok, Specs |-> specs]
File(name, decls) == [Name |-> name, Decls |-> decls]

PkgOne ==
    [GoFiles |-> << <<"one", "one.go">> >>,
     Errors  |-> <<>>,
     Syntax  |-> << File("one", << FuncDecl,
                                   GenDecl("TYPE", <<nInt, nString>>),
                                   GenDecl("VAR", <<nStruct>>),
                                   GenDecl("TYPE", <<nStruct>>) >>) >>]
\* Two files of one package; String is declared in both (no type check is
\* requested from the loader, so this loads without Errors).
PkgTwo ==
    [GoFiles |-> << <<"two", "two1.go">>, <<"two", "two2.go">> >>,
     Errors  |-> <<>>,
     Syntax  |-> << File("two", << GenDecl("TYPE", <<nString>>) >>),
                    File("two", << GenDecl("TYPE", <<nInt, nString>>) >>) >>]
PkgBad ==
    [GoFiles |-> << <<"bad", "bad.go">> >>,
     Errors  |-> <<"bad.go:1: syntax error", "bad.go:2: syntax error">>,
     Syntax  |-> << File("bad", << GenDecl("TYPE", <<nInt>>) >>) >>]
PkgNoFiles ==
    [GoFiles |-> <<>>, Errors |-> <<>>, Syntax |-> <<>>]

Packages == {PkgOne, PkgTwo, PkgBad, PkgNoFiles}

\* Every result of a successful packages.Load with at most MaxPkgs packages.
LoaderResults == UNION { [1..n -> Packages] : n \in 0..MaxPkgs }

\* ------------------------------------------------------------------------
\* Generator configurations
\* ------------------------------------------------------------------------
PatternLists == { [k \in 1..n |-> "./..."] : n \in 0..MaxPatterns }
IncludeLists == { <<>>, <<reString, reIntA>> }
IgnoreLists  == { <<>>, <<reRing, reStructA>> }

Generators ==
    [Patterns           : PatternLists,
     Includes           : IncludeLists,
     Ignores            : IgnoreLists,
     Format             : {TestFormat},
     WriteCloserCreator : {Nil, "custom"},
     Output             : {Nil, "Output"},
     DiagnosticOutput   : {Nil, "custom"},
     NoClose            : BOOLEAN,
     Header             : {"", "// the header\n"},
     Preamble           : {"", "import ()"},
     NoPackage          : BOOLEAN]


\* ------------------------------------------------------------------------
\* State
\* ------------------------------------------------------------------------
VARIABLES
    g,        \* the Generator the method is called on
    g0,       \* the Generator as it was when Generate was called
    pc,       \* "idle", "loop", "returned" or "panicked"
    ps,       \* the packages packages.Load returned
    i,        \* index of the range loop over ps (1-based)
    reterr,   \* the joined errors so far; <<>> is the nil error
    ret,      \* the error Generate returned, once pc = "returned"
    panicval, \* the value of the panic, once pc = "panicked"
    log,      \* the calls made on the sink-creator and on sinks, in order
    diag,     \* the lines printed to g.DiagnosticOutput, in order
    visits    \* the loop iterations that ran, with what became of the package

vars == <<g, g0, pc, ps, i, reterr, ret, panicval, log, diag, visits>>

\* errors.Join(a, e) for a non-nil e: the errors joined so far, then e.
Join(a, e) == Append(a, e)

\* ------------------------------------------------------------------------
\* Generate, lines 71-76: unset fields get their defaults, in place.
\* ------------------------------------------------------------------------
\* Defaults that also overwrite what the caller had set.
WithDefaultsAll(gen) ==
    [gen EXCEPT !.DiagnosticOutput = "os.Stderr",
                !.WriteCloserCreator = "defaultwg"]

WithDefaults(gen) ==
    [gen EXCEPT
        !.DiagnosticOutput = IF @ = Nil THEN "os.Stderr" ELSE @,
        !.WriteCloserCreator = IF @ = Nil THEN "defaultwg" ELSE @]

\* ------------------------------------------------------------------------
\* HandlePackage, lines 122-161: the walk over files, declarations and
\* type specs, with the include/ignore decision for each name.
\* ------------------------------------------------------------------------
\* for _, r := range rs { if r.MatchString(tn) { ... } }
RECURSIVE AnyMatch(_, _)
AnyMatch(rs, tn) ==
    IF rs = <<>> THEN FALSE
    ELSE IF MatchString(Head(rs), tn) THEN TRUE
    ELSE AnyMatch(Tail(rs), tn)

\* A filter in which a matching include pattern wins over the ignore list.
DecideIncludeFirst(includes, ignores, tn) ==
    IF Len(includes) > 0 /\ AnyMatch(includes, tn) THEN "including:"
    ELSE IF AnyMatch(ignores, tn) THEN "ignoring:"
    ELSE IF Len(includes) > 0 THEN "not included:"
    ELSE "including:"

\* The diagnostic printed for a type name (lines 138-157); the name is
\* appended to typenames exactly when it is "including:".
Decide(includes, ignores, tn) ==
    IF AnyMatch(ignores, tn) THEN "ignoring:"
    ELSE IF Len(includes) > 0 /\ ~AnyMatch(includes, tn) THEN "not included:"
    ELSE "including:"

\* for _, sp := range gd.Specs
RECURSIVE WalkSpecs(_, _)
WalkSpecs(gen, specs) ==
    IF specs = <<>> THEN <<>>
    ELSE << <<Decide(gen.Includes, gen.Ignores, Head(specs)), Head(specs)>> >>
         \o WalkSpecs(gen, Tail(specs))

\* for _, decl := range a.Decls, skipping what is no type declaration
RECURSIVE WalkDecls(_, _)
WalkDecls(gen, decls) ==
    IF decls = <<>> THEN <<>>
    ELSE (IF ~Head(decls).gen THEN <<>>
          ELSE IF Head(decls).Tok # "TYPE" THEN <<>>
          ELSE WalkSpecs(gen, Head(decls).Specs))
         \o WalkDecls(gen, Tail(decls))

\* A walk that visits the files last to first.
RECURSIVE WalkFilesReversed(_, _)
WalkFilesReversed(gen, files) ==
    IF files = <<>> THEN <<>>
    ELSE WalkFilesReversed(gen, Tail(files)) \o WalkDecls(gen, Head(files).Decls)

\* for _, a := range p.Syntax: the decisions, in the order they are printed
RECURSIVE WalkFiles(_, _)
WalkFiles(gen, files) ==
    IF files = <<>> THEN <<>>
    ELSE WalkDecls(gen, Head(files).Decls) \o WalkFiles(gen, Tail(files))

\* typenames after the walk: the names decided "including:", in walk order.
TypeNames(gen, p) ==
    LET ds == WalkFiles(gen, p.Syntax)
        acc == SelectSeq(ds, LAMBDA d : d[1] = "including:")
    IN [k \in 1..Len(acc) |-> acc[k][2]]

\* packagename after the walk: the Name of the last file visited.
PackageName(p) ==
    IF p.Syntax = <<>> THEN "" ELSE p.Syntax[Len(p.Syntax)].Name


\* ------------------------------------------------------------------------
\* HandlePackage, lines 162-174: the sink for a package.
\* ------------------------------------------------------------------------
\* What a call of g.WriteCloserCreator can return: a sink, an error, or, for
\* a creator the caller wrote, neither.  defaultwg (lines 107-116) returns
\* the created file or the error of os.Create.
CreatorResults(gen) ==
    IF gen.WriteCloserCreator = "defaultwg"
    THEN {"sink", "error"}
    ELSE {"sink", "error", "nil"}

\* The call g.WriteCloserCreator(filepath.Dir(p.GoFiles[0]), packagename).
CreateCall(k, p, result) ==
    [op |-> "Create", pkg |-> k, path |-> Dir(p.GoFiles[1]),
     mod |-> PackageName(p), result |-> result]

\* What defaultwg prints (lines 111 and 114); a creator of the caller's
\* prints nothing to the diagnostic output.
CreatorDiag(gen, p, result) ==
    IF gen.WriteCloserCreator # "defaultwg" THEN <<>>
    ELSE IF result = "error" THEN << <<"create error">> >>
    ELSE << <<"writing file:", Dir(p.GoFiles[1]),
              Sprintf(<<"%s", "_strings.go">>, <<PackageName(p)>>)>> >>

\* ------------------------------------------------------------------------
\* HandlePackage, lines 175-189: what is written to the sink w.
\* ------------------------------------------------------------------------
\* How the writes of one package fare on the sink: which of them return an
\* error.  The code reads no result of Fprint, Fprintf or Close.
WriteFaults == {"none", "first"}
Fails(fault, k) == fault = "first" /\ k = 1

\* for _, tn := range typenames { fmt.Fprintf(w, g.Format, tn, tn) }
RECURSIVE Stubs(_, _)
Stubs(gen, typenames) ==
    IF typenames = <<>> THEN <<>>
    ELSE << [step |-> "stub", name |-> Head(typenames),
             data |-> Sprintf(gen.Format, <<Head(typenames), Head(typenames)>>)] >>
         \o Stubs(gen, Tail(typenames))

\* The writes in the order the code issues them.
Writes(gen, packagename, typenames) ==
    (IF gen.Header # ""
     THEN << [step |-> "header", name |-> <<>>, data |-> <<gen.Header>>] >>
     ELSE <<>>)
    \o (IF ~gen.NoPackage
        THEN << [step |-> "package", name |-> <<>>,
                 data |-> Sprintf(<<"package ", "%s", "\n\n">>, <<packagename>>)] >>
        ELSE <<>>)
    \o (IF gen.Preamble # ""
        THEN << [step |-> "preamble", name |-> <<>>,
                 data |-> <<gen.Preamble, "\n\n">>] >>
        ELSE <<>>)
    \o Stubs(gen, typenames)

\* An emission that closes the sink before the stubs are written.
EmitCloseEarly(gen, w, k, packagename, typenames, fault) ==
    LET ws == Writes(gen, packagename, <<>>)
        ss == Stubs(gen, typenames)
    IN [j \in 1..Len(ws) |->
           [op |-> "Write", pkg |-> k, w |-> w, step |-> ws[j].step,
            name |-> ws[j].name, data |-> ws[j].data, err |-> Fails(fault, j)]]
       \o (IF ~gen.NoClose THEN << [op |-> "Close", pkg |-> k, w |-> w] >> ELSE <<>>)
       \o [j \in 1..Len(ss) |->
           [op |-> "Write", pkg |-> k, w |-> w, step |-> ss[j].step,
            name |-> ss[j].name, data |-> ss[j].data,
            err |-> Fails(fault, Len(ws) + j)]]

\* The calls on the sink w for package number k: every write, whatever the
\* earlier ones returned, then Close unless g.NoClose.
Emit(gen, w, k, packagename, typenames, fault) ==
    LET ws == Writes(gen, packagename, typenames)
    IN [j \in 1..Len(ws) |->
           [op |-> "Write", pkg |-> k, w |-> w, step |-> ws[j].step,
            name |-> ws[j].name, data |-> ws[j].data, err |-> Fails(fault, j)]]
       \o (IF ~gen.NoClose THEN << [op |-> "Close", pkg |-> k, w |-> w] >> ELSE <<>>)

\* ------------------------------------------------------------------------
\* Initial state: a Generator value, Generate not yet called.
\* ------------------------------------------------------------------------
Init ==
    /\ g \in Generators
    /\ g0 = g
    /\ pc = "idle"
    /\ ps = <<>>
    /\ i = 0
    /\ reterr = <<>>
    /\ ret = <<>>
    /\ panicval = Nil
    /\ log = <<>>
    /\ diag = <<>>
    /\ visits = <<>>

\* ------------------------------------------------------------------------
\* Generate, lines 70-88: defaults, then packages.Load.
\* ------------------------------------------------------------------------
\* packages.Load returns an error: Generate returns it.
LoadFails ==
    /\ pc = "idle"
    /\ g' = WithDefaults(g)
    /\ pc' = "returned"
    /\ ret' = <<"load error">>
    /\ UNCHANGED <<g0, ps, i, reterr, panicval, log, diag, visits>>

\* packages.Load returns no package.
LoadNothing ==
    /\ pc = "idle"
    /\ g' = WithDefaults(g)
    /\ diag' = Append(diag, <<"no packages loaded">>)
    /\ pc' = "returned"
    /\ ret' = <<"no packages loaded">>
    /\ UNCHANGED <<g0, ps, i, reterr, panicval, log, visits>>

\* packages.Load returns at least one package: the loop starts.
LoadPackages ==
    /\ pc = "idle"
    /\ \E r \in LoaderResults :
        /\ Len(r) > 0
        /\ ps' = r
    /\ g' = WithDefaults(g)
    /\ i' = 1
    /\ pc' = "loop"
    /\ UNCHANGED <<g0, reterr, ret, panicval, log, diag, visits>>

\* ------------------------------------------------------------------------
\* Generate, lines 89-103: one iteration of the loop over ps.
\* ------------------------------------------------------------------------
InLoop == pc = "loop" /\ i <= Len(ps)

\* Line 90 with an index past the end of g.Patterns: a run-time panic,
\* before anything is printed.
PatternIndexPanic ==
    /\ InLoop
    /\ i > Len(g.Patterns)
    /\ pc' = "panicked"
    /\ panicval' = "index out of range"
    /\ UNCHANGED <<g, g0, ps, i, reterr, ret, log, diag, visits>>

\* The line printed at line 90.
PatternLine == <<"package with pattern", g.Patterns[i]>>

\* Lines 91-98: a package with load diagnostics is not handled.
SkipPackageErrors ==
    /\ InLoop
    /\ i <= Len(g.Patterns)
    /\ Len(ps[i].Errors) > 0
    /\ reterr' = reterr \o ps[i].Errors
    /\ diag' = diag \o <<PatternLine, <<"found package errors, not continuing">>>>
                    \o [k \in 1..Len(ps[i].Errors) |-> <<ps[i].Errors[k]>>]
    /\ visits' = Append(visits, [pkg |-> i, outcome |-> "errors"])
    /\ i' = i + 1
    /\ UNCHANGED <<g, g0, pc, ps, ret, panicval, log>>

\* Lines 99-102 for a package HandlePackage is called on.
Handled == InLoop /\ i <= Len(g.Patterns) /\ Len(ps[i].Errors) = 0

\* HandlePackage returns at line 120.
HandleNoGoFiles ==
    /\ Handled
    /\ Len(ps[i].GoFiles) = 0
    /\ reterr' = Join(reterr, "no Go files in package")
    /\ diag' = diag \o <<PatternLine, <<"generate error:", "no Go files in package">>>>
    /\ visits' = Append(visits, [pkg |-> i, outcome |-> "nofiles"])
    /\ i' = i + 1
    /\ UNCHANGED <<g, g0, pc, ps, ret, panicval, log>>

\* The lines the walk prints for package p.
WalkDiag(p) == WalkFiles(g, p.Syntax)

\* HandlePackage returns the creator's error at line 169.
HandleCreatorError ==
    /\ Handled
    /\ Len(ps[i].GoFiles) > 0
    /\ g.Output = Nil
    /\ "error" \in CreatorResults(g)
    /\ log' = Append(log, CreateCall(i, ps[i], "error"))
    /\ reterr' = Join(reterr, "create error")
    /\ diag' = diag \o <<PatternLine>> \o WalkDiag(ps[i])
                    \o CreatorDiag(g, ps[i], "error")
                    \o << <<"generate error:", "create error">> >>
    /\ visits' = Append(visits, [pkg |-> i, outcome |-> "createerror"])
    /\ i' = i + 1
    /\ UNCHANGED <<g, g0, pc, ps, ret, panicval>>

\* A HandlePackage that returns an error for a creator that gave neither a
\* sink nor an error, so that the loop joins it and goes on.
HandleNilSinkReturnsError ==
    /\ Handled
    /\ Len(ps[i].GoFiles) > 0
    /\ g.Output = Nil
    /\ "nil" \in CreatorResults(g)
    /\ log' = Append(log, CreateCall(i, ps[i], "nil"))
    /\ reterr' = Join(reterr, "nil WriteCloser")
    /\ diag' = diag \o <<PatternLine>> \o WalkDiag(ps[i])
                    \o << <<"generate error:", "nil WriteCloser">> >>
    /\ visits' = Append(visits, [pkg |-> i, outcome |-> "nilsink"])
    /\ i' = i + 1
    /\ UNCHANGED <<g, g0, pc, ps, ret, panicval>>

\* HandlePackage panics at line 172: no sink and no error.
HandleNilSink ==
    /\ Handled
    /\ Len(ps[i].GoFiles) > 0
    /\ g.Output = Nil
    /\ "nil" \in CreatorResults(g)
    /\ log' = Append(log, CreateCall(i, ps[i], "nil"))
    /\ diag' = diag \o <<PatternLine>> \o WalkDiag(ps[i])
    /\ visits' = Append(visits, [pkg |-> i, outcome |-> "nilsink"])
    /\ pc' = "panicked"
    /\ panicval' = "nil WriteCloser"
    /\ UNCHANGED <<g, g0, ps, i, reterr, ret>>

\* HandlePackage writes to g.Output and returns nil.
HandleEmitOutput ==
    /\ Handled
    /\ Len(ps[i].GoFiles) > 0
    /\ g.Output # Nil
    /\ \E fault \in WriteFaults :
        log' = log \o Emit(g, g.Output, i, PackageName(ps[i]),
                           TypeNames(g, ps[i]), fault)
    /\ diag' = diag \o <<PatternLine>> \o WalkDiag(ps[i])
    /\ visits' = Append(visits, [pkg |-> i, outcome |-> "emitted"])
    /\ i' = i + 1
    /\ UNCHANGED <<g, g0, pc, ps, reterr, ret, panicval>>

\* HandlePackage writes to the sink the creator returned and returns nil.
HandleEmitCreated ==
    /\ Handled
    /\ Len(ps[i].GoFiles) > 0
    /\ g.Output = Nil
    /\ \E fault \in WriteFaults :
        log' = Append(log, CreateCall(i, ps[i], "sink"))
               \o Emit(g, "created", i, PackageName(ps[i]),
                       TypeNames(g, ps[i]), fault)
    /\ diag' = diag \o <<PatternLine>> \o WalkDiag(ps[i])
                    \o CreatorDiag(g, ps[i], "sink")
    /\ visits' = Append(visits, [pkg |-> i, outcome |-> "emitted"])
    /\ i' = i + 1
    /\ UNCHANGED <<g, g0, pc, ps, reterr, ret, panicval>>

\* Line 104: the loop is over, Generate returns the joined error.
Return ==
    /\ pc = "loop"
    /\ i > Len(ps)
    /\ pc' = "returned"
    /\ ret' = reterr
    /\ UNCHANGED <<g, g0, ps, i, reterr, panicval, log, diag, visits>>

Next ==
    \/ LoadFails
    \/ LoadNothing
    \/ LoadPackages
    \/ PatternIndexPanic
    \/ SkipPackageErrors
    \/ HandleNoGoFiles
    \/ HandleCreatorError
    \/ HandleNilSink
    \/ HandleEmitOutput
    \/ HandleEmitCreated
    \/ Return

Spec == Init /\ [][Next]_vars


\* ------------------------------------------------------------------------
\* Vocabulary of the properties
\* ------------------------------------------------------------------------
RECURSIVE Flatten(_)
Flatten(seqs) == IF seqs = <<>> THEN <<>> ELSE Head(seqs) \o Flatten(Tail(seqs))

\* The names of the top-level type declarations of package p: file by file,
\* declaration by declaration, type spec by type spec.
DeclaredInFile(f) ==
    Flatten([d \in 1..Len(f.Decls) |->
                IF f.Decls[d].gen /\ f.Decls[d].Tok = "TYPE"
                THEN f.Decls[d].Specs ELSE <<>>])
DeclaredInOrder(p) ==
    Flatten([f \in 1..Len(p.Syntax) |-> DeclaredInFile(p.Syntax[f])])
Range(sq) == { sq[k] : k \in 1..Len(sq) }

\* The filter as the specification words it.
IgnoreMatches(tn) == \E j \in 1..Len(g.Ignores) : MatchString(g.Ignores[j], tn)
IncludeMatches(tn) == \E j \in 1..Len(g.Includes) : MatchString(g.Includes[j], tn)
Accepted(tn) == ~IgnoreMatches(tn) /\ (g.Includes = <<>> \/ IncludeMatches(tn))

\* The calls recorded for package number k, and their kinds.
EventsOf(k) == SelectSeq(log, LAMBDA e : e.pkg = k)
SinkCallsOf(k) == SelectSeq(log, LAMBDA e : e.pkg = k /\ e.op # "Create")
IsStub(e) == e.op = "Write" /\ e.step = "stub"
StubNamesOf(k) ==
    LET st == SelectSeq(log, LAMBDA e : e.pkg = k /\ IsStub(e))
    IN [j \in 1..Len(st) |-> st[j].name]
StepOf(e) == IF e.op = "Write" THEN e.step ELSE "close"

Emitted(k) == k \in 1..Len(visits) /\ visits[k].outcome = "emitted"
Clean(p) == Len(p.Errors) = 0 /\ Len(p.GoFiles) > 0
Ended == pc \in {"returned", "panicked"}

\* The errors a visited package contributed.
ErrorsOf(v) ==
    CASE v.outcome = "errors"      -> ps[v.pkg].Errors
      [] v.outcome = "nofiles"     -> <<"no Go files in package">>
      [] v.outcome = "createerror" -> <<"create error">>
      [] OTHER                     -> <<>>
JoinedUpTo(n) == Flatten([k \in 1..n |-> ErrorsOf(visits[k])])

\* ------------------------------------------------------------------------
\* C1: HandlePackage emits a stub for a declared type name if and only if no
\* ignore pattern matches it and the include list is empty or one of its
\* patterns matches it.
\* ------------------------------------------------------------------------
C1_IgnoreTakesPrecedence ==
    \A k \in 1..Len(visits) :
        Emitted(k) =>
            LET stubbed == Range(StubNamesOf(k))
            IN \A tn \in Range(DeclaredInOrder(ps[visits[k].pkg])) :
                   (tn \in stubbed) <=> Accepted(tn)

\* A package was emitted in which a name matched by an include and by an
\* ignore pattern got no stub, and one with an empty include list got one.
C1_Witness ==
    \E k \in 1..Len(visits) :
        /\ Emitted(k)
        /\ \E tn \in Range(DeclaredInOrder(ps[visits[k].pkg])) :
            IgnoreMatches(tn) /\ IncludeMatches(tn) /\ tn \notin Range(StubNamesOf(k))
        /\ \E tn \in Range(DeclaredInOrder(ps[visits[k].pkg])) :
            ~IgnoreMatches(tn) /\ tn \in Range(StubNamesOf(k))

\* ------------------------------------------------------------------------
\* C4: the stubs of a package are the accepted type names in file order,
\* then declaration order, then spec order; none dropped, reordered or
\* merged with an equal one.
\* ------------------------------------------------------------------------
C4_StubOrder ==
    \A k \in 1..Len(visits) :
        Emitted(k) =>
            StubNamesOf(k) = SelectSeq(DeclaredInOrder(ps[visits[k].pkg]), Accepted)

\* A package of two files was emitted with the same name written twice.
C4_Witness ==
    \E k \in 1..Len(visits) :
        /\ Emitted(k)
        /\ Len(ps[visits[k].pkg].Syntax) > 1
        /\ \E a, b \in 1..Len(StubNamesOf(k)) :
            a + 1 < b /\ StubNamesOf(k)[a] = StubNamesOf(k)[b]

\* ------------------------------------------------------------------------
\* C5: the calls on a package's sink are, in this order: header (iff Header
\* is set), package clause (iff not NoPackage), preamble with its blank
\* line (iff Preamble is set), one stub per accepted name, and one Close iff
\* not NoClose; nothing is written after the Close.
\* ------------------------------------------------------------------------
ExpectedSteps(k) ==
    (IF g.Header # "" THEN <<"header">> ELSE <<>>)
    \o (IF ~g.NoPackage THEN <<"package">> ELSE <<>>)
    \o (IF g.Preamble # "" THEN <<"preamble">> ELSE <<>>)
    \o [j \in 1..Len(SelectSeq(DeclaredInOrder(ps[visits[k].pkg]), Accepted)) |-> "stub"]
    \o (IF ~g.NoClose THEN <<"close">> ELSE <<>>)

C5_EmitterStepOrder ==
    \A k \in 1..Len(visits) :
        Emitted(k) =>
            LET calls == SinkCallsOf(k)
            IN /\ [j \in 1..Len(calls) |-> StepOf(calls[j])] = ExpectedSteps(k)
               /\ \A j \in 1..Len(calls) :
                    (calls[j].op = "Write" /\ calls[j].step = "preamble")
                        => calls[j].data = <<g.Preamble, "\n\n">>

\* A package was emitted with all five kinds of step.
C5_Witness ==
    \E k \in 1..Len(visits) :
        /\ Emitted(k)
        /\ g.Header # "" /\ ~g.NoPackage /\ g.Preamble # "" /\ ~g.NoClose
        /\ Len(StubNamesOf(k)) >= 2
        /\ Len(SinkCallsOf(k)) = Len(StubNamesOf(k)) + 4

\* ------------------------------------------------------------------------
\* C7: a creator that returns neither a sink nor an error stops the run with
\* a panic: nothing is joined for it, nothing is written for its package,
\* and no later package is handled.  A creator that returns an error is
\* joined like any error of a package and the loop goes on.
\* ------------------------------------------------------------------------
C7_NilSinkHalts ==
    /\ reterr = JoinedUpTo(Len(visits))
    /\ \A k \in 1..Len(visits) :
        /\ visits[k].outcome = "nilsink" =>
            /\ pc = "panicked" /\ panicval = "nil WriteCloser"
            /\ k = Len(visits) /\ i = visits[k].pkg
            /\ SinkCallsOf(visits[k].pkg) = <<>>
            /\ \A e \in Range(log) : e.pkg <= visits[k].pkg
        /\ visits[k].outcome = "createerror" =>
            /\ SinkCallsOf(visits[k].pkg) = <<>>
            /\ i > visits[k].pkg
            /\ panicval # "nil WriteCloser" \/ k < Len(visits)

\* A creator error on the first package, then the panic on the second.
C7_Witness ==
    /\ Len(visits) = 2
    /\ visits[1].outcome = "createerror"
    /\ visits[2].outcome = "nilsink"
    /\ reterr = <<"create error">>
    /\ pc = "panicked"

\* ------------------------------------------------------------------------
\* C8 as stated: every field of the Generator is the same after Generate
\* returns as before the call.
\* ------------------------------------------------------------------------
C8_ConfigurationNeverMutated ==
    pc = "returned" => g = g0

\* C8 amended: after Generate returns, every field is as before the call
\* except that a nil DiagnosticOutput has become os.Stderr and a nil
\* WriteCloserCreator has become the default creator.
C8_OnlyUnsetFieldsDefaulted ==
    pc = "returned" =>
        /\ \A f \in (DOMAIN g0) \ {"DiagnosticOutput", "WriteCloserCreator"} :
            g[f] = g0[f]
        /\ g.DiagnosticOutput =
             IF g0.DiagnosticOutput = Nil THEN "os.Stderr" ELSE g0.DiagnosticOutput
        /\ g.WriteCloserCreator =
             IF g0.WriteCloserCreator = Nil THEN "defaultwg" ELSE g0.WriteCloserCreator

\* Generate returned after a loop, for a Generator with one of the two
\* fields unset and the other set.
C8_Witness ==
    /\ pc = "returned"
    /\ Len(visits) > 0
    /\ g0.DiagnosticOutput = Nil
    /\ g0.WriteCloserCreator # Nil
    /\ g # g0


\* ------------------------------------------------------------------------
\* C2: when the loader returned packages, every one of them is visited in
\* loader order whatever became of the earlier ones, an error-free package
\* gets its artifact, and Generate returns the join of every error of a
\* package: nil exactly when there was none (a run stopped by a creator that
\* gave neither sink nor error excepted).
\* ------------------------------------------------------------------------
C2_FailureIsolation ==
    (Ended /\ Len(ps) >= 1 /\ panicval # "nil WriteCloser") =>
        /\ pc = "returned"
        /\ Len(visits) = Len(ps)
        /\ \A k \in 1..Len(visits) : visits[k].pkg = k
        /\ \A k \in 1..Len(visits) :
            (Clean(ps[k]) /\ visits[k].outcome # "createerror") => Emitted(k)
        /\ ret = JoinedUpTo(Len(visits))
        /\ (ret = <<>>) <=> (\A k \in 1..Len(visits) : ErrorsOf(visits[k]) = <<>>)

\* ------------------------------------------------------------------------
\* C3: with no Output set, over a run the creator is called exactly once for
\* each loaded package without load diagnostics and with a source file, with
\* that package's name, and the stubs written up to the next call are names
\* of that package; for any other package nothing is created, written or
\* closed.
\* ------------------------------------------------------------------------
CreatesOf(k) == SelectSeq(log, LAMBDA e : e.pkg = k /\ e.op = "Create")

C3_OneArtifactPerCleanPackage ==
    (Ended /\ g.Output = Nil) =>
        \A k \in 1..Len(ps) :
            IF Clean(ps[k])
            THEN /\ Len(CreatesOf(k)) = 1
                 /\ CreatesOf(k)[1].mod = PackageName(ps[k])
                 /\ \A a, b \in 1..Len(log) :
                      /\ a < b
                      /\ log[a] = CreatesOf(k)[1]
                      /\ IsStub(log[b])
                      /\ \A c \in (a + 1)..(b - 1) : log[c].op # "Create"
                      => log[b].name \in Range(DeclaredInOrder(ps[k]))
            ELSE EventsOf(k) = <<>>

\* ------------------------------------------------------------------------
\* C6: a write that fails ends the emission of its package: no further call
\* is made on the sink for that package, HandlePackage returns the error,
\* and Generate joins it into the error it returns.
\* ------------------------------------------------------------------------
FailedWrite(e) == e.op = "Write" /\ e.err

C6_WriteFailurePropagates ==
    /\ \A a, b \in 1..Len(log) :
        (a < b /\ FailedWrite(log[a])) => log[b].pkg # log[a].pkg
    /\ \A k \in 1..Len(visits) :
        (\E e \in Range(EventsOf(visits[k].pkg)) : FailedWrite(e))
            => visits[k].outcome # "emitted"
    /\ pc = "returned" /\ (\E e \in Range(log) : FailedWrite(e)) => ret # <<>>

\* ------------------------------------------------------------------------
\* C9: the loop never indexes g.Patterns past its end: whatever the numbers
\* of patterns and of loaded packages, every loaded package is reached.
\* ------------------------------------------------------------------------
C9_PatternsIndexInRange ==
    /\ panicval # "index out of range"
    /\ pc = "returned" /\ Len(ps) > 0 => Len(visits) = Len(ps)

\* ------------------------------------------------------------------------
\* C10: with an Output sink set, over a whole run the creator is never
\* called, Close is called on Output at most once, and nothing is written to
\* Output after it was closed.
\* ------------------------------------------------------------------------
C10_OutputClosedOnce ==
    g.Output # Nil =>
        /\ \A e \in Range(log) : e.op # "Create"
        /\ Cardinality({a \in 1..Len(log) : log[a].op = "Close"}) <= 1
        /\ \A a, b \in 1..Len(log) :
            (a < b /\ log[a].op = "Close") => log[b].op # "Write"

====
